---- MODULE Spec2Model ----
(***************************************************************************)
(* p-monitoring: the probe loop (checkComponents, startHealthChecks), the  *)
(* status store (StatusMap) and the /health handler (startHTTPServer) of   *)
(* main.go, as one state machine.                                          *)
(***************************************************************************)
EXTENDS Integers, Sequences, FiniteSets, Bags, TLC

\* ------------------------------------------------------------------ bounds

\* time.Now() is modelled as a logical clock that advances by one at every
\* store write; probing stops when the clock reaches MaxClock.
MaxClock == 3

\* number of /health requests that may be in flight at once
NumHandlers == 1

\* number of goroutines that call StatusMap.Update, each for a name of its own
NumUpdaters == 2

\* ----------------------------------------------------------- configuration

\* cfg.Components: the configuration of TestHealthEndpoint
Components == <<"db", "cache">>

\* http.Client{Timeout: 5 * time.Second}
ClientTimeout == 5

\* cfg.CheckInterval, in seconds: the configuration of TestHealthEndpoint
CheckInterval == 1

\* the nil error value
Nil == "<nil>"

\* the token with an underscore in place of the space
NotOkUnderscore == "not_ok"

\* line 103: the value of endpointStatus that is not "ok" (the not_ok of the
\* design's vocabulary)
NotOk == "not ok"

\* --------------------------------------------------------- probed endpoints

\* HTTP status codes an endpoint answers with
StatusCodes == {200, 503}

\* response bodies an endpoint sends
Bodies == { "", "OK", "{\"status\":", "{}",
            "{\"status\":\"ok\"}", "{\"status\":\"down\"}" }

\* seconds an endpoint takes before it acts: at once, or longer than the
\* client's timeout
Delays == {0, ClientTimeout + 1}

\* What an endpoint does when it is probed: refuse the connection, fail to
\* resolve, or accept and send the status line after headDelay seconds and
\* the body after a further bodyDelay seconds.
EndpointBehaviours ==
  [kind : {"refused", "nxdomain"}, code : {0}, body : {""},
   headDelay : {0}, bodyDelay : {0}]
  \cup
  [kind : {"respond"}, code : StatusCodes, body : Bodies,
   headDelay : Delays, bodyDelay : Delays]

\* resp.Status for a status code
StatusLine(code) ==
  CASE code = 200 -> "200 OK"
    [] code = 503 -> "503 Service Unavailable"
    [] OTHER      -> ""

\* resp, err := client.Get(c.Endpoint) and bodyBytes, _ := io.ReadAll(resp.Body)
\* (lines 106, 118). The client's timer covers the connection, the headers
\* and the reading of the body: Get returns an error when the headers are
\* not in by then; when the body is not, ReadAll returns the bytes read so
\* far (here: none) and an error, which line 118 drops.
ClientGet(e) ==
  CASE e.kind = "refused" ->
         [err |-> "dial tcp: connect: connection refused",
          Status |-> "", StatusCode |-> 0, bodyBytes |-> "", readTimedOut |-> FALSE]
    [] e.kind = "nxdomain" ->
         [err |-> "dial tcp: lookup: no such host",
          Status |-> "", StatusCode |-> 0, bodyBytes |-> "", readTimedOut |-> FALSE]
    [] e.kind = "respond" /\ e.headDelay >= ClientTimeout ->
         [err |-> "context deadline exceeded (Client.Timeout exceeded while awaiting headers)",
          Status |-> "", StatusCode |-> 0, bodyBytes |-> "", readTimedOut |-> FALSE]
    [] e.kind = "respond" /\ e.headDelay + e.bodyDelay >= ClientTimeout ->
         [err |-> Nil, Status |-> StatusLine(e.code), StatusCode |-> e.code,
          bodyBytes |-> "", readTimedOut |-> TRUE]
    [] OTHER ->
         [err |-> Nil, Status |-> StatusLine(e.code), StatusCode |-> e.code,
          bodyBytes |-> e.body, readTimedOut |-> FALSE]

\* json.Unmarshal(bodyBytes, &health) into struct{ Status string }:
\* (decErr, health.Status)
Unmarshal(b) ==
  CASE b = ""                        -> [err |-> "unexpected end of JSON input", Status |-> ""]
    [] b = "OK"                      -> [err |-> "invalid character 'O' looking for beginning of value", Status |-> ""]
    [] b = "{\"status\":"            -> [err |-> "unexpected end of JSON input", Status |-> ""]
    [] b = "{}"                      -> [err |-> Nil, Status |-> ""]
    [] b = "{\"status\":\"ok\"}"     -> [err |-> Nil, Status |-> "ok"]
    [] b = "{\"status\":\"down\"}"   -> [err |-> Nil, Status |-> "down"]

\* strings.TrimSpace(strings.ToLower(s)) == "ok", on the bodies above
trimToOk(s) == s \in {"OK"}

\* ------------------------------------------------------------ classification

\* JsonSaysOk comparing with the wrong literal
JsonSaysOkWrongLiteral(dec) == dec.err = Nil /\ dec.Status = "OK"

\* line 120: decErr == nil && health.Status == "ok"
JsonSaysOk(dec) == dec.err = Nil /\ dec.Status = "ok"

\* AcceptsByCode without the branch of lines 129-131
AcceptsByCodeAndBody(code, bodyStr) ==
  code = 200 /\ (Len(bodyStr) = 0 \/ trimToOk(bodyStr))

\* lines 126-131: the two branches that accept a response by its status code
AcceptsByCode(code, bodyStr) ==
  \/ code = 200 /\ (Len(bodyStr) = 0 \/ trimToOk(bodyStr))
  \/ code = 200

\* lines 132-135: status = "invalid_response"; errMsg = decErr.Error().
\* Calling Error() on a nil decErr is a nil dereference: the goroutine
\* panics after status was assigned and before errMsg is.
InvalidResponse(r, dec) ==
  [panic |-> dec.err = Nil, status |-> "invalid_response",
   endpointStatus |-> NotOk, httpResult |-> r.Status,
   errMsg |-> IF dec.err = Nil THEN "" ELSE dec.err]

\* lines 107-110: the transport failed
Unreachable(r) ==
  [panic |-> FALSE, status |-> "unreachable", endpointStatus |-> NotOk,
   httpResult |-> r.err, errMsg |-> r.err]

\* Healthy that leaves endpointStatus at its initial value
HealthyStatusOnly(r) ==
  [panic |-> FALSE, status |-> "ok", endpointStatus |-> NotOk,
   httpResult |-> r.Status, errMsg |-> ""]

\* lines 121-122 and 127-131: the endpoint is healthy
Healthy(r) ==
  [panic |-> FALSE, status |-> "ok", endpointStatus |-> "ok",
   httpResult |-> r.Status, errMsg |-> ""]

\* Classify looking at the status code before the body: a non-200 response
\* is never healthy
ClassifyCodeFirst(r) ==
  IF r.err # Nil
  THEN Unreachable(r)
  ELSE LET dec == Unmarshal(r.bodyBytes)
       IN IF r.StatusCode = 200 THEN Healthy(r)
          ELSE InvalidResponse(r, dec)

\* lines 102-137: the values of status, endpointStatus, httpResult and errMsg
\* for the outcome r of client.Get, and whether the loop body panics
Classify(r) ==
  IF r.err # Nil
  THEN Unreachable(r)
  ELSE LET dec == Unmarshal(r.bodyBytes)
       IN IF JsonSaysOk(dec) THEN Healthy(r)
          ELSE IF AcceptsByCode(r.StatusCode, r.bodyBytes) THEN Healthy(r)
          ELSE InvalidResponse(r, dec)

\* ------------------------------------------------------------------- state

Names == {Components[i] : i \in 1..Len(Components)}

VARIABLES
  pc,        \* where the probe goroutine is: "probe", "lock", "write",
             \* "unlock", "log", "sleep", or "panicked" (process gone)
  idx,       \* index in cfg.Components of the component of this iteration
  resp,      \* (resp, err) of the last client.Get, with the body bytes read
  loc,       \* the locals status, endpointStatus, httpResult, errMsg
  store,     \* statusMap.Components
  mu,        \* statusMap.mu: w = held for writing, r = number of read holds
  now,       \* the clock
  requests,  \* the /health requests being served, a bag of handler
             \* activations [hpc, todo, comps, report, snapAt]:
             \*   hpc     where the handler is: "range", "aggregate", "done"
             \*   todo    the map keys GetAll's range has still to visit
             \*   comps   the slice components
             \*   report  the HealthResponse sent
             \*   snapAt  history: the store when GetAll took the read lock
  probed,    \* history: the names whose probe has written its record
  lastWritten, \* history: per name, the record last written for it
  upd,       \* per caller of StatusMap.Update: where it is ("idle", "assign",
             \* "unlock") and the argument status of the call
  started,   \* the names whose GET this call of checkComponents has made
  logs       \* the log entries this call of checkComponents has printed

vars == <<pc, idx, resp, loc, store, mu, now, requests, probed, lastWritten, upd,
          started, logs>>

probeVars == <<pc, idx, resp, loc, started, logs>>

NoResp == [err |-> Nil, Status |-> "", StatusCode |-> 0, bodyBytes |-> "", readTimedOut |-> FALSE]
\* lines 102-105: the initial values of the locals
FreshLocals == [status |-> "unknown", endpointStatus |-> NotOk, httpResult |-> "", errMsg |-> ""]
NoReport == [Code |-> 0, ContentType |-> "", Status |-> "", Components |-> <<>>]

\* the empty map of NewStatusMap
EmptyMap == [k \in {} |-> 0]

\* the handler activations in flight
InFlight == BagToSet(requests)

\* the callers of StatusMap.Update
Updaters == 1..NumUpdaters

\* name := "comp" + strconv.Itoa(i%10): the name caller u updates
UpdateName(u) ==
  <<"comp0", "comp1", "comp2", "comp3", "comp4",
    "comp5", "comp6", "comp7", "comp8", "comp9">>[((u - 1) % 10) + 1]

\* the status arguments of the calls of Update
UpdateStatuses == {"ok", "degraded"}

Init ==
  /\ pc = "probe" /\ idx = 1
  /\ resp = NoResp /\ loc = FreshLocals
  /\ store = EmptyMap
  /\ mu = [w |-> FALSE, r |-> 0]
  /\ now = 0
  /\ requests = EmptyBag
  /\ probed = {} /\ lastWritten = EmptyMap
  /\ upd = [u \in Updaters |-> [pc |-> "idle", status |-> ""]]
  /\ started = <<>> /\ logs = <<>>

\* ------------------------------------------------------------ the status map

\* CanLock that does not wait for the readers
CanLockDespiteReaders(m) == ~m.w

\* statusMap.mu.Lock() can proceed
CanLock(m) == ~m.w /\ m.r = 0

\* statusMap.mu.RLock() can proceed
CanRLock(m) == ~m.w

\* NewRecord without LastChecked: the zero time
NewRecordZeroTime(name, l, t) ==
  [Name |-> name, Status |-> l.status, EndpointStatus |-> l.endpointStatus,
   HTTPResult |-> l.httpResult, LastChecked |-> 0, Error |-> l.errMsg]

\* lines 139-146: the record the probe stores
NewRecord(name, l, t) ==
  [Name |-> name, Status |-> l.status, EndpointStatus |-> l.endpointStatus,
   HTTPResult |-> l.httpResult, LastChecked |-> t, Error |-> l.errMsg]

\* MapAssign into a map made anew
MapAssignFresh(m, name, rec) == [k \in {name} |-> rec]

\* MapAssign that leaves a name that has a record as it is
MapAssignKeepsExisting(m, name, rec) ==
  [k \in DOMAIN m \cup {name} |-> IF k \in DOMAIN m THEN m[k] ELSE rec]

\* lines 58, 139: the map assignment Components[name] = rec
MapAssign(m, name, rec) ==
  [k \in DOMAIN m \cup {name} |-> IF k = name THEN rec ELSE m[k]]

\* AggregateFrom that decides on the first record alone
AggregateFirstOnly(components, i) ==
  IF i > Len(components) THEN "ok"
  ELSE IF components[i].Status # "ok" THEN "degraded"
  ELSE "ok"

\* lines 190-196: the aggregate status of the slice components
RECURSIVE AggregateFrom(_, _)
AggregateFrom(components, i) ==
  IF i > Len(components) THEN "ok"
  ELSE IF components[i].Status # "ok" THEN "degraded"
  ELSE AggregateFrom(components, i + 1)

\* ------------------------------------------------------- the probe goroutine

\* lines 101-137: one iteration of the loop up to the store write: the GET
\* and the classification of its outcome
Probe ==
  /\ pc = "probe"
  /\ now < MaxClock
  /\ \E e \in EndpointBehaviours :
       LET r == ClientGet(e)
           v == Classify(r)
       IN /\ resp' = r
          /\ loc' = [status |-> v.status, endpointStatus |-> v.endpointStatus,
                     httpResult |-> v.httpResult, errMsg |-> v.errMsg]
          /\ pc' = IF v.panic THEN "panicked" ELSE "lock"
  /\ started' = Append(started, Components[idx])
  /\ UNCHANGED <<idx, store, mu, now, probed, lastWritten, logs>>
  /\ UNCHANGED <<requests, upd>>

\* line 138: statusMap.mu.Lock()
ProbeLock ==
  /\ pc = "lock"
  /\ CanLock(mu)
  /\ mu' = [mu EXCEPT !.w = TRUE]
  /\ pc' = "write"
  /\ UNCHANGED <<idx, resp, loc, store, now, probed, lastWritten, started, logs>>
  /\ UNCHANGED <<requests, upd>>

\* lines 139-146: the map assignment, LastChecked: time.Now()
ProbeWrite ==
  /\ pc = "write"
  /\ now' = now + 1
  /\ LET rec == NewRecord(Components[idx], loc, now')
     IN /\ store' = MapAssign(store, Components[idx], rec)
        /\ lastWritten' = [k \in DOMAIN lastWritten \cup {Components[idx]} |->
                            IF k = Components[idx] THEN rec ELSE lastWritten[k]]
  /\ probed' = probed \cup {Components[idx]}
  /\ pc' = "unlock"
  /\ UNCHANGED <<idx, resp, loc, mu, started, logs>>
  /\ UNCHANGED <<requests, upd>>

\* line 147: statusMap.mu.Unlock(); the response is not used after it
ProbeUnlock ==
  /\ pc = "unlock"
  /\ mu' = [mu EXCEPT !.w = FALSE]
  /\ pc' = "log"
  /\ resp' = NoResp
  /\ UNCHANGED <<idx, loc, store, now, probed, lastWritten, started, logs>>
  /\ UNCHANGED <<requests, upd>>

\* lines 148-163: the log entry of a probe, the time stamp aside
LogEntry(name, l) ==
  [component |-> name, status |-> l.status, endpoint_status |-> l.endpointStatus,
   http_result |-> l.httpResult, error |-> l.errMsg]

\* ProbeLog that starts the next cycle at once after the last component
ProbeLogThenNextCycle ==
  /\ pc = "log"
  /\ IF idx < Len(Components)
     THEN pc' = "probe" /\ idx' = idx + 1
     ELSE pc' = "probe" /\ idx' = 1
  /\ loc' = FreshLocals
  /\ IF idx < Len(Components)
     THEN logs' = Append(logs, LogEntry(Components[idx], loc)) /\ started' = started
     ELSE logs' = <<>> /\ started' = <<>>
  /\ UNCHANGED <<resp, store, mu, now, probed, lastWritten>>
  /\ UNCHANGED <<requests, upd>>

\* lines 148-165: the log line, then the next component, or the return of
\* checkComponents after the last one
ProbeLog ==
  /\ pc = "log"
  /\ IF idx < Len(Components)
     THEN pc' = "probe" /\ idx' = idx + 1
     ELSE pc' = "sleep" /\ idx' = idx
  /\ logs' = Append(logs, LogEntry(Components[idx], loc))
  /\ loc' = FreshLocals
  /\ UNCHANGED <<resp, store, mu, now, probed, lastWritten, started>>
  /\ UNCHANGED <<requests, upd>>

\* lines 178-181: time.Sleep(interval), then the next checkComponents
Sleep ==
  /\ pc = "sleep"
  /\ pc' = "probe" /\ idx' = 1
  /\ started' = <<>> /\ logs' = <<>>
  /\ UNCHANGED <<resp, loc, store, mu, now, probed, lastWritten>>
  /\ UNCHANGED <<requests, upd>>

\* ------------------------------------------------------- the /health handler

\* the bag of requests with activation q replaced by q2
Step(q, q2) == (requests (-) SetToBag({q})) (+) SetToBag({q2})

\* lines 187-189, 62, 64: a request arrives; GetAll takes the read lock and
\* makes the empty slice
GetAllRLock ==
  /\ pc # "panicked"
  /\ BagCardinality(requests) < NumHandlers
  /\ CanRLock(mu)
  /\ mu' = [mu EXCEPT !.r = @ + 1]
  /\ requests' = requests (+) SetToBag({[hpc |-> "range", todo |-> DOMAIN store,
                                         comps |-> <<>>, report |-> NoReport,
                                         snapAt |-> store]})
  /\ UNCHANGED <<store, now, probed, lastWritten>>
  /\ UNCHANGED probeVars
  /\ UNCHANGED upd

\* a range that takes each record out of the map as it copies it
GetAllRangeTaking ==
  /\ pc # "panicked"
  /\ \E q \in InFlight :
       /\ q.hpc = "range"
       /\ \E k \in q.todo :
            /\ requests' = Step(q, [q EXCEPT !.comps = Append(@, store[k]),
                                             !.todo = @ \ {k}])
            /\ store' = [n \in DOMAIN store \ {k} |-> store[n]]
  /\ UNCHANGED <<mu, now, probed, lastWritten>>
  /\ UNCHANGED probeVars
  /\ UNCHANGED upd

\* lines 65-67: one iteration of the range over the map, in any order
GetAllRange ==
  /\ pc # "panicked"
  /\ \E q \in InFlight :
       /\ q.hpc = "range"
       /\ \E k \in q.todo :
            requests' = Step(q, [q EXCEPT !.comps = Append(@, store[k]),
                                          !.todo = @ \ {k}])
  /\ UNCHANGED <<store, mu, now, probed, lastWritten>>
  /\ UNCHANGED probeVars
  /\ UNCHANGED upd

\* lines 63, 68: the range is over; RUnlock and return
GetAllReturn ==
  /\ pc # "panicked"
  /\ \E q \in InFlight :
       /\ q.hpc = "range"
       /\ q.todo = {}
       /\ requests' = Step(q, [q EXCEPT !.hpc = "aggregate"])
  /\ mu' = [mu EXCEPT !.r = @ - 1]
  /\ UNCHANGED <<store, now, probed, lastWritten>>
  /\ UNCHANGED probeVars
  /\ UNCHANGED upd

\* http.StatusOK, the code net/http sends when the handler writes the body
\* without a call of WriteHeader
StatusOK == 200

\* a response with an error code whenever the aggregate is not "ok"
EncodeWithErrorCode(status, comps) ==
  [Code |-> IF status = "ok" THEN StatusOK ELSE 503,
   ContentType |-> "application/json",
   Status |-> status, Components |-> comps]

\* lines 187, 196-200: the header set first, then the one Encode call that
\* writes the HealthResponse as the body
Encode(status, comps) ==
  [Code |-> StatusOK,
   ContentType |-> "application/json",
   Status |-> status, Components |-> comps]

\* lines 190-201: the aggregate status and the response
Respond ==
  /\ pc # "panicked"
  /\ \E q \in InFlight :
       /\ q.hpc = "aggregate"
       /\ requests' = Step(q, [q EXCEPT !.hpc = "done",
                                        !.report = Encode(AggregateFrom(q.comps, 1), q.comps)])
  /\ UNCHANGED <<store, mu, now, probed, lastWritten>>
  /\ UNCHANGED probeVars
  /\ UNCHANGED upd

\* line 202: the handler returns
HandlerReturn ==
  /\ pc # "panicked"
  /\ \E q \in InFlight :
       /\ q.hpc = "done"
       /\ requests' = requests (-) SetToBag({q})
  /\ UNCHANGED <<store, mu, now, probed, lastWritten>>
  /\ UNCHANGED probeVars
  /\ UNCHANGED upd

\* ---------------------------------------------------------- StatusMap.Update

\* line 58: the record Update stores
UpdateRecord(name, status, t) ==
  [Name |-> name, Status |-> status, EndpointStatus |-> "",
   HTTPResult |-> "", LastChecked |-> t, Error |-> ""]

\* lines 55-56: s.Update(name, status) is called and takes the lock
UpdateLock(u) ==
  /\ upd[u].pc = "idle"
  /\ now < MaxClock
  /\ CanLock(mu)
  /\ mu' = [mu EXCEPT !.w = TRUE]
  /\ \E st \in UpdateStatuses : upd' = [upd EXCEPT ![u] = [pc |-> "assign", status |-> st]]
  /\ UNCHANGED <<store, now, requests, probed, lastWritten>>
  /\ UNCHANGED probeVars

\* line 58: the map assignment, LastChecked: time.Now()
UpdateAssign(u) ==
  /\ upd[u].pc = "assign"
  /\ now' = now + 1
  /\ LET rec == UpdateRecord(UpdateName(u), upd[u].status, now')
     IN /\ store' = MapAssign(store, UpdateName(u), rec)
        /\ lastWritten' = [k \in DOMAIN lastWritten \cup {UpdateName(u)} |->
                            IF k = UpdateName(u) THEN rec ELSE lastWritten[k]]
  /\ upd' = [upd EXCEPT ![u].pc = "unlock"]
  /\ UNCHANGED <<mu, requests, probed>>
  /\ UNCHANGED probeVars

\* line 57: the deferred s.mu.Unlock(); Update returns
UpdateUnlock(u) ==
  /\ upd[u].pc = "unlock"
  /\ mu' = [mu EXCEPT !.w = FALSE]
  /\ upd' = [upd EXCEPT ![u] = [pc |-> "idle", status |-> ""]]
  /\ UNCHANGED <<store, now, requests, probed, lastWritten>>
  /\ UNCHANGED probeVars

Next ==
  \/ Probe
  \/ ProbeLock
  \/ ProbeWrite
  \/ ProbeUnlock
  \/ ProbeLog
  \/ Sleep
  \/ GetAllRLock
  \/ GetAllRange
  \/ GetAllReturn
  \/ Respond
  \/ HandlerReturn

Spec == Init /\ [][Next]_vars

\* the steps of the probe goroutine (go startHealthChecks, line 239)
ProberStep ==
  \/ Probe
  \/ ProbeLock
  \/ ProbeWrite
  \/ ProbeUnlock
  \/ ProbeLog
  \/ Sleep

\* the steps of a request handler that has entered GetAll
HandlerStep ==
  \/ GetAllRange
  \/ GetAllReturn
  \/ Respond
  \/ HandlerReturn

\* the Go scheduler runs every runnable goroutine; sync.RWMutex blocks new
\* readers while a Lock call is waiting, so the writer is not starved
FairSpec ==
  /\ Spec
  /\ WF_vars(ProberStep)
  /\ SF_vars(ProbeLock)
  /\ WF_vars(HandlerStep)

\* the status map used by concurrent callers of Update and of GetAll, as the
\* test and the benchmark use it
UpdateNext ==
  \/ \E u \in Updaters : UpdateLock(u)
  \/ \E u \in Updaters : UpdateAssign(u)
  \/ \E u \in Updaters : UpdateUnlock(u)
  \/ GetAllRLock
  \/ GetAllRange
  \/ GetAllReturn
  \/ Respond
  \/ HandlerReturn

UpdateSpec == Init /\ [][UpdateNext]_vars

\* ------------------------------------------------------------------ claims

\* the GET of this iteration has returned and its outcome has been classified
Classified == pc \in {"lock", "write", "unlock", "panicked"}

\* the probe of this iteration has just written its record
Stored == pc = "unlock"

\* the record under the name of the component of this iteration
Rec == store[Components[idx]]

\* the outcome of json.Unmarshal on the body bytes of this iteration
Dec == Unmarshal(resp.bodyBytes)

\* the body parsed as a JSON object whose status field is "ok"
BodyIsJsonOk == Dec.err = Nil /\ Dec.Status = "ok"

\* C1: nothing a probed endpoint returns terminates the process: the probe
\* goroutine never panics, so the cycle and the loop go on.
C1_NoProbeOutcomeTerminates == pc # "panicked"

\* C2: classification is total: whatever the GET returned, the probe does not
\* throw and the status it arrives at, and stores, is one of ok, unreachable,
\* invalid_response.
C2_ClassificationTotal ==
  /\ Classified =>
       /\ pc # "panicked"
       /\ loc.status \in {"ok", "unreachable", "invalid_response"}
  /\ Stored => Rec.Status \in {"ok", "unreachable", "invalid_response"}

\* the client's timer fired during this probe, before the headers or during
\* the body
TimeoutFired ==
  \/ resp.err = "context deadline exceeded (Client.Timeout exceeded while awaiting headers)"
  \/ resp.readTimedOut

\* C3: a probe whose HTTP call fails at transport level, the timeout firing
\* included, writes status=unreachable, endpoint_status=not_ok and the
\* non-empty transport error text as http_result and as error; a timeout is
\* always classified this way.
C3_TransportFailureUnreachable ==
  Stored /\ (resp.err # Nil \/ TimeoutFired) =>
    /\ Rec.Status = "unreachable"
    /\ Rec.EndpointStatus = NotOk
    /\ Rec.Error # ""
    /\ Rec.HTTPResult = Rec.Error
    /\ resp.err # Nil => Rec.Error = resp.err

\* C4: a response with status code 200, whatever its body, is stored as
\* status=ok, endpoint_status=ok, http_result "200 OK" and no error, and never
\* makes the probe panic.
C4_Code200IsOk ==
  Classified /\ resp.err = Nil /\ resp.StatusCode = 200 =>
    /\ pc # "panicked"
    /\ Stored =>
         /\ Rec.Status = "ok"
         /\ Rec.EndpointStatus = "ok"
         /\ Rec.HTTPResult = "200 OK"
         /\ Rec.HTTPResult = resp.Status
         /\ Rec.Error = ""

\* C4 witness: a 200 whose JSON body says "down" has been stored
C4_Witness ==
  /\ Stored /\ resp.StatusCode = 200
  /\ resp.bodyBytes = "{\"status\":\"down\"}"
  /\ Rec.Status = "ok"

\* C5 as stated: a {"status":"ok"} body with a status code other than 200 is
\* classified invalid_response.
C5_JsonOkNon200IsInvalid ==
  Stored /\ resp.err = Nil /\ resp.bodyBytes = "{\"status\":\"ok\"}"
         /\ resp.StatusCode # 200 =>
    Rec.Status = "invalid_response"

\* C5 amended: a {"status":"ok"} body with a status code other than 200 is
\* classified ok: the body decides before the status code is looked at, and
\* the record keeps the non-200 status line.
C5_JsonOkNon200IsOk ==
  Classified /\ resp.err = Nil /\ resp.bodyBytes = "{\"status\":\"ok\"}"
             /\ resp.StatusCode # 200 =>
    /\ pc # "panicked"
    /\ loc.status = "ok"
    /\ Stored => Rec.Status = "ok" /\ Rec.HTTPResult # "200 OK"

\* C5 witness: a 503 with the body {"status":"ok"} has been stored
C5_Witness ==
  /\ Stored /\ resp.StatusCode = 503
  /\ resp.bodyBytes = "{\"status\":\"ok\"}"

\* C6: a response of any status code whose body parses as a JSON object with
\* status "ok" is stored as status=ok, endpoint_status=ok, with no error.
C6_JsonOkIsOk ==
  Classified /\ resp.err = Nil /\ BodyIsJsonOk =>
    /\ pc # "panicked"
    /\ Stored => Rec.Status = "ok" /\ Rec.EndpointStatus = "ok" /\ Rec.Error = ""

\* C6 witness: JSON "ok" bodies have been stored under both components, one
\* with a 200 and one with another code
C6_Witness ==
  /\ Stored /\ BodyIsJsonOk /\ resp.StatusCode # 200
  /\ \E k \in DOMAIN store : k # Components[idx] /\ store[k].HTTPResult = "200 OK"

\* C7: a response with a status code other than 200 whose body is not a JSON
\* object with status "ok", whether the body fails to parse or parses with
\* another or no status, is stored as status=invalid_response,
\* endpoint_status=not_ok, http_result the status line, error the JSON parse
\* error message.
C7_Non200NotJsonOkIsInvalid ==
  Classified /\ resp.err = Nil /\ resp.StatusCode # 200 /\ ~BodyIsJsonOk =>
    /\ pc # "panicked"
    /\ Stored =>
         /\ Rec.Status = "invalid_response"
         /\ Rec.EndpointStatus = NotOk
         /\ Rec.HTTPResult = resp.Status
         /\ Rec.Error = Dec.err

\* the statuses of the records of a report
ReportStatuses(rep) == {rep.Components[i].Status : i \in 1..Len(rep.Components)}

\* the names of the records of a report
ReportNames(rep) == {rep.Components[i].Name : i \in 1..Len(rep.Components)}

\* C8: the top-level status of every report is "ok" exactly when every record
\* in that report has status "ok", "degraded" otherwise; a report without
\* records is "ok"; a component that was not probed yet is not in the report.
C8_AggregateOfItsOwnRecords ==
  \A q \in InFlight :
    q.hpc = "done" =>
      /\ q.report.Status \in {"ok", "degraded"}
      /\ q.report.Status = "ok" <=> ReportStatuses(q.report) \subseteq {"ok"}
      /\ Len(q.report.Components) = 0 => q.report.Status = "ok"
      /\ ReportNames(q.report) \subseteq probed

\* C8 witness: a report says "degraded" because of its second record, and
\* the store was written after the report's records were read
C8_Witness ==
  \E q \in InFlight :
    /\ q.hpc = "done"
    /\ Len(q.report.Components) = 2
    /\ q.report.Components[1].Status = "ok"
    /\ q.report.Status = "degraded"
    /\ store # q.snapAt

\* C9: the store holds a record for exactly the configured names whose probe
\* has written once, each under its own name, and no step removes a record.
C9_OneRecordPerProbedName ==
  /\ [](/\ DOMAIN store = probed
        /\ probed \subseteq Names
        /\ \A k \in DOMAIN store : store[k].Name = k)
  /\ [][DOMAIN store \subseteq DOMAIN store']_vars

\* C9 witness: both components have a record, one of them written twice,
\* after a time in which only one had
C9_Witness ==
  /\ DOMAIN store = Names
  /\ store["db"].LastChecked > store["cache"].LastChecked

\* the records of a map
Records(m) == {m[k] : k \in DOMAIN m}

\* C10: the list GetAll returns is the store as it was at one moment, the
\* moment the read lock was taken, record for record, and every record in the
\* store is the whole record one probe wrote.
C10_SnapshotIsAtomic ==
  /\ \A k \in DOMAIN store : store[k] = lastWritten[k]
  /\ \A q \in InFlight :
       /\ \A i \in 1..Len(q.comps) :
            /\ q.comps[i].Name \in DOMAIN q.snapAt
            /\ q.comps[i] = q.snapAt[q.comps[i].Name]
       /\ q.hpc \in {"aggregate", "done"} =>
            /\ Len(q.comps) = Cardinality(DOMAIN q.snapAt)
            /\ {q.comps[i] : i \in 1..Len(q.comps)} = Records(q.snapAt)

\* C10 witness: GetAll has returned two records, and a probe has since
\* replaced one of them in the store
C10_Witness ==
  \E q \in InFlight :
    /\ q.hpc = "aggregate"
    /\ Len(q.comps) = 2
    /\ \E k \in DOMAIN q.snapAt : store[k] # q.snapAt[k]

\* the names a caller of Update is assigning to at this moment
BeingAssigned == {UpdateName(u) : u \in {v \in Updaters : upd[v].pc = "assign"}}

\* C11: updates of different names do not lose one another: the store holds
\* exactly the names updated so far, each with the value last written for it;
\* a GetAll taken of that store returns one record per name, the last written;
\* and an update changes the record of no other name.
C11_NoLostUpdate ==
  /\ [](/\ DOMAIN store = DOMAIN lastWritten
        /\ \A k \in DOMAIN store : store[k] = lastWritten[k]
        /\ \A q \in InFlight :
             q.hpc \in {"aggregate", "done"} /\ q.snapAt = store =>
               /\ Len(q.comps) = Cardinality(DOMAIN lastWritten)
               /\ \A i \in 1..Len(q.comps) :
                    q.comps[i] = lastWritten[q.comps[i].Name])
  /\ [][\A k \in DOMAIN store :
          /\ k \in DOMAIN store'
          /\ store'[k] # store[k] => k \in BeingAssigned]_vars

\* C11 witness: the callers have updated two names, one of them twice, the
\* other in between, and a GetAll of that store has returned two records
C11_Witness ==
  /\ DOMAIN store = {UpdateName(1), UpdateName(2)}
  /\ store[UpdateName(1)].LastChecked = 3
  /\ store[UpdateName(2)].LastChecked = 2
  /\ \E q \in InFlight : q.hpc = "aggregate" /\ q.snapAt = store /\ Len(q.comps) = 2

\* the error of a GET whose headers did not arrive within the client's timeout
HeaderTimeout == "context deadline exceeded (Client.Timeout exceeded while awaiting headers)"

\* a lower bound, in seconds, of the time the probes took that wrote the
\* records now in the store: each one that ran into the client's timeout
\* took ClientTimeout seconds
SecondsAtLeast ==
  ClientTimeout * Cardinality({k \in DOMAIN store : store[k].Error = HeaderTimeout})

\* the cycle that has just ended (every record is from it) took longer than
\* the configured interval
Overran ==
  /\ pc = "sleep"
  /\ SecondsAtLeast > CheckInterval

\* the k-th store write of the probe goroutine is for component
\* ((k - 1) mod N) + 1: one cycle after the other, in configured order, no
\* component left out
InCycleOrder ==
  LET N == Len(Components)
  IN /\ pc \in {"probe", "lock", "write", "panicked"} => idx = (now % N) + 1
     /\ pc \in {"unlock", "log"} => now > 0 /\ idx = ((now - 1) % N) + 1
     /\ pc = "sleep" => now > 0 /\ now % N = 0 /\ idx = N

\* C12 as stated: after a cycle that took longer than the interval the next
\* cycle starts at once, without the sleep; cycles neither overlap nor are
\* skipped.
C12_NoSleepAfterOverrun ==
  /\ ~Overran
  /\ InCycleOrder

\* C12 amended: every cycle, also one that took longer than the interval, is
\* followed by the sleep of the full interval, and a cycle starts only at
\* startup or out of that sleep; cycles neither overlap nor are skipped.
C12_FixedDelay ==
  /\ []InCycleOrder
  /\ [][/\ (pc = "log" /\ idx = Len(Components) /\ pc' # pc) => pc' = "sleep"
        /\ (pc' = "probe" /\ idx' = 1 /\ pc # pc') => pc = "sleep"]_vars

\* C12 witness: a cycle with a probe that ran into the 5-second timeout has
\* ended and the scheduler is in its sleep of 1 second
C12_Witness == Overran /\ now = Len(Components)

\* every record now in the store or in a report being built or sent
RecordsInSight ==
  Records(store) \cup UNION {{q.comps[i] : i \in 1..Len(q.comps)} : q \in InFlight}

C14_EveryComponentEventuallyStored ==
  ([]~TimeoutFired) => <>(DOMAIN store = Names)

\* the responses sent
Sent == {q.report : q \in {h \in InFlight : h.hpc = "done"}}

\* C15: every response to /health has code 200 and a JSON content type,
\* whatever the aggregate status and whatever the store held; a handler that
\* has not responded yet has sent nothing.
C15_Always200Json ==
  /\ \A rep \in Sent :
       /\ rep.Code = 200
       /\ rep.ContentType = "application/json"
       /\ rep.Status \in {"ok", "degraded"}
  /\ \A q \in InFlight : q.hpc # "done" => q.report = NoReport

\* C15 witness: a response with aggregate "degraded" and two records, one of
\* an unreachable component, was sent with code 200
C15_Witness ==
  \E rep \in Sent :
    /\ rep.Status = "degraded"
    /\ rep.Code = 200
    /\ Len(rep.Components) = 2
    /\ \E i \in 1..2 : rep.Components[i].Status = "unreachable"

\* the GetAll calls that have returned
Returned == {q \in InFlight : q.hpc \in {"aggregate", "done"}}

\* the set of records a GetAll call returned
Got(q) == {q.comps[i] : i \in 1..Len(q.comps)}

\* C16: GetAll is a pure read: a call that returns with no store write since
\* it began returns exactly the records of the store, so two calls with no
\* write in between return the same set, in whatever order; and no step of a
\* GetAll call changes the store.
C16_GetAllIsPureRead ==
  /\ [](/\ \A q \in Returned : q.snapAt = store => Got(q) = Records(store)
        /\ \A q1, q2 \in Returned : q1.snapAt = q2.snapAt => Got(q1) = Got(q2))
  /\ [][requests' # requests => store' = store]_vars

\* C16 witness: a call has returned both records of the unchanged store, in
\* the order opposite to the configured one
C16_Witness ==
  \E q \in Returned :
    /\ q.snapAt = store
    /\ Len(q.comps) = 2
    /\ q.comps[1].Name = Components[2]
    /\ q.comps[2].Name = Components[1]

\* this call of checkComponents is over: it has returned, or the process is gone
CycleEnded == pc \in {"sleep", "panicked"}

\* no probe is in progress
BetweenProbes == pc \in {"probe", "sleep", "panicked"}

\* C17: within one cycle each configured component is probed exactly once,
\* one at a time, in configured order: a probe starts only after the store
\* write and the log entry of the one before, and a cycle that is over has
\* probed, stored and logged every configured component.
C17_EachComponentOnceInOrder ==
  /\ Len(started) <= Len(Components)
  /\ \A i \in 1..Len(started) : started[i] = Components[i]
  /\ \A i \in 1..Len(logs) : logs[i].component = Components[i]
  /\ Len(logs) <= Len(started) /\ Len(started) <= Len(logs) + 1
  /\ \A i \in 1..Len(logs) : started[i] \in DOMAIN store
  /\ pc = "probe" => Len(started) = idx - 1 /\ Len(logs) = idx - 1
  /\ CycleEnded => started = Components /\ Len(logs) = Len(Components)

\* the log entry that mirrors a stored record
EntryOf(rec) ==
  [component |-> rec.Name, status |-> rec.Status,
   endpoint_status |-> rec.EndpointStatus, http_result |-> rec.HTTPResult,
   error |-> rec.Error]

\* C18: each probe emits exactly one log entry, whose component, status,
\* endpoint_status, http_result and error are those of the record the same
\* probe stored; the record is stored before, and whether or not, the entry
\* is printed.
C18_OneLogEntryPerProbe ==
  /\ \A i \in 1..Len(logs) :
       /\ logs[i].component \in DOMAIN store
       /\ logs[i] = EntryOf(store[logs[i].component])
  /\ BetweenProbes => Len(logs) = Len(started)
  /\ BetweenProbes => \A i \in 1..Len(started) : started[i] \in DOMAIN store
  /\ pc = "log" => Components[idx] \in DOMAIN store

\* the two views of a record agree, it carries an error text exactly when it
\* is not "ok", and the initial "unknown" is gone
Coherent(status, endpointStatus, errMsg) ==
  /\ status = "ok" <=> endpointStatus = "ok"
  /\ errMsg # "" <=> status # "ok"
  /\ status # "unknown"

\* C19: every record a probe writes has status "ok" exactly when its
\* endpoint_status is "ok", a non-empty error exactly when its status is not
\* "ok", and never the status "unknown"; so have the locals it is written
\* from.
C19_RecordIsCoherent ==
  /\ \A r \in Records(store) : Coherent(r.Status, r.EndpointStatus, r.Error)
  /\ pc \in {"lock", "write", "unlock", "log"} =>
       Coherent(loc.status, loc.endpointStatus, loc.errMsg)

\* C19 witness: the store holds a healthy record without error text and an
\* invalid_response record with the decoder's error text
C19_Witness ==
  /\ \E r \in Records(store) :
       r.Status = "ok" /\ r.EndpointStatus = "ok" /\ r.Error = ""
  /\ \E r \in Records(store) :
       r.Status = "invalid_response" /\ r.EndpointStatus = "not ok" /\ r.Error # ""

\* C20: the record stored for a name is the one the latest probe of that name
\* wrote, with the time of that write; a write replaces a record only by a
\* newer one, so last_checked of a name never decreases in the store, and no
\* report holds a record newer than the store's.
C20_LatestProbeWins ==
  /\ [](/\ \A k \in DOMAIN store :
             /\ store[k] = lastWritten[k]
             /\ store[k].LastChecked \in 1..now
        /\ \A q \in InFlight : \A i \in 1..Len(q.comps) :
             q.comps[i].LastChecked <= store[q.comps[i].Name].LastChecked)
  /\ [][\A k \in DOMAIN store :
          /\ k \in DOMAIN store'
          /\ store'[k].LastChecked >= store[k].LastChecked
          /\ store'[k] # store[k] =>
               /\ k = Components[idx]
               /\ store'[k].LastChecked = now'
               /\ store'[k].LastChecked > store[k].LastChecked]_vars

\* C20 witness: the second cycle has replaced the first component's record,
\* and a report still being served holds the record of the first cycle
C20_Witness ==
  /\ Components[1] \in DOMAIN store
  /\ store[Components[1]].LastChecked = 3
  /\ \E q \in Returned : \E i \in 1..Len(q.comps) :
       /\ q.comps[i].Name = Components[1]
       /\ q.comps[i].LastChecked = 1

====
